---- MODULE Spec2Model ----
(***************************************************************************)
(* pricing-core: the price calculator (core/calculator.js) and the         *)
(* rounding registry (rounding/index.js, ceilStep.js, charm99.js).         *)
(*                                                                         *)
(* A call of an exported function is one atomic step: Init draws the       *)
(* function called (op) and its arguments, the action of that function     *)
(* runs the whole function on them and records what it returned or threw.  *)
(*                                                                         *)
(* JavaScript values                                                       *)
(*   bigint / integer number   a TLA+ integer                              *)
(*   string s                  Str(s)                                      *)
(*   function f                Fn(f), f the name of the function           *)
(*   undefined (no argument)   Undefined                                   *)
(*   a returned bigint x       Return(x)                                   *)
(*   a returned string s       ReturnString(s)                             *)
(*   a returned object         ReturnObject(x), x the bigint it wraps      *)
(*   a returned boolean        ReturnBoolean(b), b its text                *)
(*   a thrown Error            Throw(parts), parts the pieces of the       *)
(*                             message in order (literal text and          *)
(*                             interpolated values)                        *)
(***************************************************************************)
EXTENDS Integers, Sequences, FiniteSets, TLC

----------------------------------------------------------------------------
(* Bounds of the explored inputs.                                          *)

\* costs run over -NegCost .. MaxCost (and the costs of the worked examples)
NegCost == 2
MaxCost == 12
\* markup values run over -NegMarkup .. SmallMarkup, over the grid
\* MarkupStep, 2*MarkupStep, .., MarkupSteps*MarkupStep, and over the
\* values within EdgeWidth of 10000
NegMarkup == 2
SmallMarkup == 3
MarkupStep == 500
MarkupSteps == 24
EdgeWidth == 2

----------------------------------------------------------------------------
(* JavaScript values.                                                      *)

Str(s) == [t |-> "string", v |-> s]
Fn(f) == [t |-> "function", v |-> f]
Undefined == [t |-> "undefined", v |-> "undefined"]

\* how a call ended: type is "return" or "throw"; typeof is the type of the
\* returned value; message holds the text of a thrown error or of a
\* returned string
Return(x) == [type |-> "return", typeof |-> "bigint", value |-> x, message |-> << >>]
ReturnString(s) == [type |-> "return", typeof |-> "string", value |-> 0, message |-> <<s>>]
ReturnObject(x) == [type |-> "return", typeof |-> "object", value |-> x, message |-> << >>]
ReturnBoolean(b) == [type |-> "return", typeof |-> "boolean", value |-> 0, message |-> <<b>>]
Throw(parts) == [type |-> "throw", typeof |-> "undefined", value |-> 0, message |-> parts]

Abs(x) == IF x < 0 THEN -x ELSE x

\* BigInt division truncates toward zero; the divisor is never 0 on the
\* paths of this program (10000 - markup >= 1, 10000, 100, 10, 5, 1).
BigDiv(a, b) ==
  LET q == Abs(a) \div Abs(b)
  IN IF (a < 0) /= (b < 0) THEN -q ELSE q

\* BigInt remainder takes the sign of the dividend.
BigRem(a, b) == a - b * BigDiv(a, b)

\* Math.round on the rational n/d (d > 0): nearest integer, halves toward
\* +Infinity.
MathRound(n, d) == (2 * n + d) \div (2 * d)

----------------------------------------------------------------------------
(* core/math.js                                                            *)

divCeil_floor(num, den) == BigDiv(num, den)

divCeil(num, den) == BigDiv(num + den - 1, den)

----------------------------------------------------------------------------
(* rounding/identity.js, rounding/ceilStep.js, rounding/charm99.js         *)

identity(priceUnits) == priceUnits

ceilStep_down(stepUnits, priceUnits) ==
  priceUnits - BigRem(priceUnits, stepUnits)

ceilStep_always(stepUnits, priceUnits) ==
  priceUnits + (stepUnits - BigRem(priceUnits, stepUnits))

ceilStep_fullStep(stepUnits, priceUnits) ==
  LET r == BigRem(priceUnits, stepUnits)
  IN IF r = 0 THEN priceUnits ELSE priceUnits + stepUnits

\* ceilStep(stepUnits)(priceUnits)
ceilStep(stepUnits, priceUnits) ==
  LET r == BigRem(priceUnits, stepUnits)
  IN IF r = 0 THEN priceUnits ELSE priceUnits + (stepUnits - r)

hundred == 100

charm99_strict(priceUnits) ==
  LET dollars == BigDiv(priceUnits, hundred)
      target == dollars * hundred + 99
  IN IF target > priceUnits THEN target ELSE (dollars + 1) * hundred + 99

charm99(priceUnits) ==
  LET dollars == BigDiv(priceUnits, hundred)
      cents == BigRem(priceUnits, hundred)
      target == dollars * hundred + 99
  IN IF target >= priceUnits THEN target ELSE (dollars + 1) * hundred + 99

\* the custom rounder of test/quick-check.js
lastDigit9(units) ==
  LET last == BigRem(units, 10)
      target == units - last + 9
  IN IF target >= units THEN target ELSE target + 10

\* the custom rounder of the README: nearest multiple of 25
roundToQuarter(units) ==
  LET quarter == 25
      remainder == BigRem(units, quarter)
      halfQuarter == BigDiv(quarter, 2)
  IN IF remainder = 0 THEN units
     ELSE IF remainder >= halfQuarter THEN units + (quarter - remainder)
     ELSE units - remainder

----------------------------------------------------------------------------
(* rounding/index.js                                                       *)

\* A rounder function value: which function it is and, for the closures
\* ceilStep returns, the stepUnits it captured.
Rounder(f, stepUnits) == [fn |-> f, step |-> stepUnits]

ceilStepUSD == Rounder("ceilStep", 5)
ceilStepEUR == Rounder("ceilStep", 5)
ceilStepJPY_nickel == Rounder("ceilStep", 5)
ceilStepJPY == Rounder("ceilStep", 1)
ceilStepINR == Rounder("ceilStep", 5)

\* the registry object as the module creates it
roundersInit ==
  [identity    |-> Rounder("identity", 0),
   ceilStep5   |-> Rounder("ceilStep", 5),
   ceilStep10  |-> Rounder("ceilStep", 10),
   ceilStepUSD |-> ceilStepUSD,
   ceilStepEUR |-> ceilStepEUR,
   ceilStepJPY |-> ceilStepJPY,
   ceilStepINR |-> ceilStepINR,
   charm99     |-> Rounder("charm99", 0)]

\* The registry is an object literal, so a property read that finds no own
\* key goes on to Object.prototype. These are the names found there, all
\* with a truthy value: the function Object under "constructor",
\* Object.prototype itself (an object, not a function) under "__proto__",
\* and a method of Object.prototype under each other name.
ObjectPrototypeMethods ==
  {"toString", "valueOf", "hasOwnProperty", "isPrototypeOf",
   "propertyIsEnumerable", "toLocaleString", "__defineGetter__",
   "__defineSetter__", "__lookupGetter__", "__lookupSetter__"}

ObjectPrototype ==
  [k \in ObjectPrototypeMethods \cup {"constructor", "__proto__"} |->
     CASE k = "constructor" -> Rounder("Object", 0)
       [] k = "__proto__" -> Rounder("Object.prototype", 0)
       [] OTHER -> Rounder("Object.prototype." \o k, 0)]

VARIABLES
  costUnits,    \* the cost argument of the call
  markupValue,  \* the markup (or margin) argument of the call
  strategy,     \* the strategy argument of the call
  rounding,     \* the rounding argument of the call
  argStep,      \* stepUnits of a ceilStep call
  argPrice,     \* priceUnits of a ceilStep or charm99 call
  pctNumber,    \* the argument of a pctToBps call
  pc,           \* "call": the call is about to run; "done": it has ended
  op,           \* the exported function called
  result,       \* what the call returned or threw
  invoked,      \* the arguments of the calls made of a custom rounder
  rounders,     \* the rounding registry
  callers       \* the calls of several callers on one registry

vars == <<costUnits, markupValue, strategy, rounding, argStep, argPrice,
          pctNumber, pc, op, result, invoked, rounders, callers>>

\* String(x), as a property key and in a template literal
JSString(x) ==
  CASE x.t = "string" -> x.v
    [] x.t = "undefined" -> "undefined"
    [] x.t = "function" -> "[source text of " \o x.v \o "]"

Found(f) == [type |-> "return", fn |-> f, message |-> << >>]
NotFound(parts) == [type |-> "throw", fn |-> Rounder("", 0), message |-> parts]

resolveRounder_ownKeys(r) ==
  IF r.t = "function" THEN Found(Rounder(r.v, 0))
  ELSE IF JSString(r) \in DOMAIN rounders THEN Found(rounders[JSString(r)])
  ELSE NotFound(<<"Unknown rounding style: ", JSString(r)>>)

\* resolveRounder(rounding): the rounder found, or the error thrown
resolveRounder(r) ==
  IF r.t = "function" THEN Found(Rounder(r.v, 0))
  ELSE LET key == JSString(r)
       IN IF key \in DOMAIN rounders THEN Found(rounders[key])
          ELSE IF key \in DOMAIN ObjectPrototype THEN Found(ObjectPrototype[key])
          ELSE NotFound(<<"Unknown rounding style: ", key>>)

\* rounder(units): the call of a resolved rounder, with no this value and
\* a bigint as the only argument. Of the values found on Object.prototype:
\* Object(units) returns an object that wraps the bigint; Object.prototype
\* is not a function, so the call throws; toString needs no this;
\* isPrototypeOf returns false for a primitive argument before it looks at
\* this; the others convert this (undefined) to an object first and throw.
callRounder(rounder, units) ==
  CASE rounder.fn = "identity" -> Return(identity(units))
    [] rounder.fn = "ceilStep" -> Return(ceilStep(rounder.step, units))
    [] rounder.fn = "charm99" -> Return(charm99(units))
    [] rounder.fn = "lastDigit9" -> Return(lastDigit9(units))
    [] rounder.fn = "roundToQuarter" -> Return(roundToQuarter(units))
    [] rounder.fn = "Object" -> ReturnObject(units)
    [] rounder.fn = "Object.prototype"
         -> Throw(<<"TypeError: rounder is not a function">>)
    [] rounder.fn = "Object.prototype.toString" -> ReturnString("[object Undefined]")
    [] rounder.fn = "Object.prototype.isPrototypeOf" -> ReturnBoolean("false")
    [] rounder.fn = "Object.prototype.toLocaleString"
         -> Throw(<<"TypeError: Object.prototype.toLocaleString called on null or undefined">>)
    [] rounder.fn \in {"Object.prototype.valueOf", "Object.prototype.hasOwnProperty",
                       "Object.prototype.propertyIsEnumerable",
                       "Object.prototype.__defineGetter__",
                       "Object.prototype.__defineSetter__",
                       "Object.prototype.__lookupGetter__",
                       "Object.prototype.__lookupSetter__"}
         -> Throw(<<"TypeError: Cannot convert undefined or null to object">>)

----------------------------------------------------------------------------
(* core/calculator.js: the cases of the strategy switch                    *)

ONE == 10000

marginCase_discount(cost, markup) ==
  IF markup < 0 \/ markup >= 10000
  THEN Throw(<<"marginBps must be between 0 and 9999 (i.e., < 100%).">>)
  ELSE Return(divCeil(cost * (ONE - markup), ONE))


marginCase_noNegativeCheck(cost, markup) ==
  IF markup >= ONE
  THEN Throw(<<"marginBps must be between 0 and 9999 (i.e., < 100%).">>)
  ELSE Return(divCeil(cost * ONE, ONE - markup))

marginCase(cost, markup) ==
  IF markup < 0 \/ markup >= ONE
  THEN Throw(<<"marginBps must be between 0 and 9999 (i.e., < 100%).">>)
  ELSE LET denom == ONE - markup
           numerator == cost * ONE
       IN Return(divCeil(numerator, denom))

costPlusCase_marginFormula(cost, markup) ==
  IF markup < 0 THEN Throw(<<"costPlus markup cannot be negative.">>)
  ELSE Return(divCeil(cost * ONE, ONE + markup) + cost)


costPlusCase_capped(cost, markup) ==
  IF markup < 0 \/ markup >= ONE
  THEN Throw(<<"costPlus markup cannot be negative.">>)
  ELSE Return(BigDiv(cost * (ONE + markup), ONE))

costPlusCase(cost, markup) ==
  IF markup < 0
  THEN Throw(<<"costPlus markup cannot be negative.">>)
  ELSE LET markupMultiplier == ONE + markup
       IN Return(BigDiv(cost * markupMultiplier, ONE))

keystoneCase_validated(cost, markup) ==
  IF markup < 0
  THEN Throw(<<"keystone markup cannot be negative.">>)
  ELSE Return(cost * 2)

keystoneCase(cost, markup) == Return(cost * 2)

keystonePlusCase_discount(cost, markup) ==
  IF markup < 0 THEN Throw(<<"keystonePlus markup cannot be negative.">>)
  ELSE Return(BigDiv(cost * 2 * ONE, ONE + markup) + cost)


keystonePlusCase_twoFloors(cost, markup) ==
  IF markup < 0
  THEN Throw(<<"keystonePlus markup cannot be negative.">>)
  ELSE Return(2 * BigDiv(cost * (ONE + markup), ONE))

keystonePlusCase(cost, markup) ==
  IF markup < 0
  THEN Throw(<<"keystonePlus markup cannot be negative.">>)
  ELSE LET keystoneMarkup == ONE + markup
       IN Return(BigDiv(cost * 2 * keystoneMarkup, ONE))

fixedAmountCase_bps(cost, markup) ==
  IF markup < 0
  THEN Throw(<<"fixedAmount markup cannot be negative.">>)
  ELSE Return(BigDiv(cost * (ONE + markup), ONE))

fixedAmountCase(cost, markup) ==
  IF markup < 0
  THEN Throw(<<"fixedAmount markup cannot be negative.">>)
  ELSE Return(cost + markup)

targetMarginCase_floor(cost, markup) ==
  IF markup < 0 \/ markup >= ONE
  THEN Throw(<<"targetMargin must be between 0 and 9999 (i.e., < 100%).">>)
  ELSE Return(BigDiv(cost * ONE, ONE - markup))

targetMarginCase(cost, markup) ==
  IF markup < 0 \/ markup >= ONE
  THEN Throw(<<"targetMargin must be between 0 and 9999 (i.e., < 100%).">>)
  ELSE LET targetDenom == ONE - markup
           targetNumerator == cost * ONE
       IN Return(divCeil(targetNumerator, targetDenom))

markupOnCostCase_ceil(cost, markup) ==
  IF markup < 0
  THEN Throw(<<"markupOnCost cannot be negative.">>)
  ELSE Return(divCeil(cost * (ONE + markup), ONE))

markupOnCostCase(cost, markup) ==
  IF markup < 0
  THEN Throw(<<"markupOnCost cannot be negative.">>)
  ELSE LET costMarkupMultiplier == ONE + markup
       IN Return(BigDiv(cost * costMarkupMultiplier, ONE))

\* `${strategy}` in the message of the default case
TemplateString(x) == JSString(x)

\* the names the message of the default case lists (joined by ", " there)
SupportedStrategies ==
  <<"margin", "costPlus", "keystone", "keystonePlus", "fixedAmount",
    "targetMargin", "markupOnCost">>

defaultCase_staleList(s) ==
  Throw(<<"Unknown markup strategy: ", TemplateString(s), ". Supported strategies: ">>
        \o <<"margin", "costPlus", "keystone", "keystonePlus", "fixedAmount">>)

\* the message is the text "Unknown markup strategy: ", the strategy given,
\* the text ". Supported strategies: " and the listed names
defaultCase(s) ==
  Throw(<<"Unknown markup strategy: ", TemplateString(s), ". Supported strategies: ">>
        \o SupportedStrategies)

\* switch (strategy): the raw price, or the error of the case
strategySwitch(cost, markup, s) ==
  CASE s = Str("margin") -> marginCase(cost, markup)
    [] s = Str("costPlus") -> costPlusCase(cost, markup)
    [] s = Str("keystone") -> keystoneCase(cost, markup)
    [] s = Str("keystonePlus") -> keystonePlusCase(cost, markup)
    [] s = Str("fixedAmount") -> fixedAmountCase(cost, markup)
    [] s = Str("targetMargin") -> targetMarginCase(cost, markup)
    [] s = Str("markupOnCost") -> markupOnCostCase(cost, markup)
    [] OTHER -> defaultCase(s)

roundingStage_clamped(price, r) ==
  LET rounder == resolveRounder(r)
  IN IF rounder.type = "throw" THEN Throw(rounder.message)
     ELSE LET rounded == callRounder(rounder.fn, price)
          IN IF rounded.type = "return" /\ rounded.typeof = "bigint" /\ rounded.value < price
             THEN Return(price)
             ELSE rounded

\* the rounding stage: resolveRounder(rounding), then rounder(priceUnits)
roundingStage(price, r) ==
  LET rounder == resolveRounder(r)
  IN IF rounder.type = "throw" THEN Throw(rounder.message)
     ELSE callRounder(rounder.fn, price)

\* the default values of the parameters strategy and rounding
defaultStrategy_costPlus == Str("costPlus")
defaultStrategy == Str("margin")
defaultRounding == Str("identity")

calculatePrice_roundsCost(cu, mv, s0, r0) ==
  LET s == IF s0 = Undefined THEN defaultStrategy ELSE s0
      r == IF r0 = Undefined THEN defaultRounding ELSE r0
      cost == cu
      markup == MathRound(mv, 1)
  IN IF cost < 0 THEN Throw(<<"costUnits cannot be negative.">>)
     ELSE LET rounded == roundingStage(cost, r)
          IN IF rounded.type = "throw" \/ rounded.typeof /= "bigint" THEN rounded
             ELSE strategySwitch(rounded.value, markup, s)

calculatePrice_resolveFirst(cu, mv, s0, r0) ==
  LET s == IF s0 = Undefined THEN defaultStrategy ELSE s0
      r == IF r0 = Undefined THEN defaultRounding ELSE r0
      cost == cu
      markup == MathRound(mv, 1)
      rounder == resolveRounder(r)
  IN IF rounder.type = "throw" THEN Throw(rounder.message)
     ELSE IF cost < 0 THEN Throw(<<"costUnits cannot be negative.">>)
     ELSE LET raw == strategySwitch(cost, markup, s)
          IN IF raw.type = "throw" THEN raw
             ELSE callRounder(rounder.fn, raw.value)

calculatePrice_switchFirst(cu, mv, s0, r0) ==
  LET s == IF s0 = Undefined THEN defaultStrategy ELSE s0
      r == IF r0 = Undefined THEN defaultRounding ELSE r0
      cost == cu
      markup == MathRound(mv, 1)
      raw == strategySwitch(cost, markup, s)
  IN IF raw.type = "throw" THEN raw
     ELSE IF cost < 0 THEN Throw(<<"costUnits cannot be negative.">>)
     ELSE roundingStage(raw.value, r)

\* calculatePrice(costUnits, markupValue, strategy, rounding)
calculatePrice(cu, mv, s0, r0) ==
  LET s == IF s0 = Undefined THEN defaultStrategy ELSE s0
      r == IF r0 = Undefined THEN defaultRounding ELSE r0
      cost == cu                    \* BigInt(costUnits), integer-valued
      markup == MathRound(mv, 1)    \* BigInt(Math.round(markupValue))
  IN IF cost < 0 THEN Throw(<<"costUnits cannot be negative.">>)
     ELSE LET raw == strategySwitch(cost, markup, s)
          IN IF raw.type = "throw" THEN raw
             ELSE roundingStage(raw.value, r)

\* the calls calculatePrice makes of a custom rounding function, as the
\* sequence of their arguments: the only call of the rounder is
\* rounder(priceUnits) of the rounding stage, reached when neither the cost
\* check nor the switch threw and resolveRounder returned; rounder is the
\* caller's function exactly when the rounding argument is a function
roundingStageCalls(price, r) ==
  IF resolveRounder(r).type = "throw" THEN << >>
  ELSE IF r.t = "function" THEN <<price>>
  ELSE << >>

customCalls(cu, mv, s0, r0) ==
  LET s == IF s0 = Undefined THEN defaultStrategy ELSE s0
      r == IF r0 = Undefined THEN defaultRounding ELSE r0
      cost == cu
      markup == MathRound(mv, 1)
  IN IF cost < 0 THEN << >>
     ELSE LET raw == strategySwitch(cost, markup, s)
          IN IF raw.type = "throw" THEN << >>
             ELSE roundingStageCalls(raw.value, r)

\* the registry after resolveRounder(rounding): no statement of
\* resolveRounder assigns to rounders or to a property of it
resolveRounderRegistry_memoised(r) ==
  IF r.t = "function"
  THEN [k \in DOMAIN rounders \cup {r.v} |->
          IF k = r.v THEN Rounder(r.v, 0) ELSE rounders[k]]
  ELSE rounders

resolveRounderRegistry(r) == rounders

\* the registry after calculatePrice: its only use of the registry is the
\* call of resolveRounder in the rounding stage
calculatePriceRegistry(cu, mv, s0, r0) ==
  LET s == IF s0 = Undefined THEN defaultStrategy ELSE s0
      r == IF r0 = Undefined THEN defaultRounding ELSE r0
  IN IF cu < 0 THEN rounders
     ELSE IF strategySwitch(cu, MathRound(mv, 1), s).type = "throw" THEN rounders
     ELSE resolveRounderRegistry(r)

----------------------------------------------------------------------------
(* core/calculator.js: the single-strategy entry points                    *)

calculatePriceWithMargin(cu, marginBps, r0) ==
  LET r == IF r0 = Undefined THEN defaultRounding ELSE r0
  IN calculatePrice(cu, marginBps, Str("margin"), r)

calculateCostPlusPrice(cu, markupBps, r0) ==
  LET r == IF r0 = Undefined THEN defaultRounding ELSE r0
  IN calculatePrice(cu, markupBps, Str("costPlus"), r)

calculateKeystonePrice_dropsRounding(cu, r0) ==
  calculatePrice(cu, 0, Str("keystone"), Undefined)

calculateKeystonePrice(cu, r0) ==
  LET r == IF r0 = Undefined THEN defaultRounding ELSE r0
  IN calculatePrice(cu, 0, Str("keystone"), r)

calculateKeystonePlusPrice(cu, additionalMarkupBps, r0) ==
  LET r == IF r0 = Undefined THEN defaultRounding ELSE r0
  IN calculatePrice(cu, additionalMarkupBps, Str("keystonePlus"), r)

calculateFixedAmountPrice(cu, fixedAmount, r0) ==
  LET r == IF r0 = Undefined THEN defaultRounding ELSE r0
  IN calculatePrice(cu, fixedAmount, Str("fixedAmount"), r)

calculateMarkupOnCostPrice(cu, markupBps, r0) ==
  LET r == IF r0 = Undefined THEN defaultRounding ELSE r0
  IN calculatePrice(cu, markupBps, Str("markupOnCost"), r)

----------------------------------------------------------------------------
(* src/core/calculator.js: the three-argument calculator                   *)

\* calculatePrice(costUnits, marginBps, rounding) of src/core/calculator.js:
\* the margin check comes before the cost check
legacyCalculatePrice(cu, marginBps, r0) ==
  LET r == IF r0 = Undefined THEN defaultRounding ELSE r0
      cost == cu                         \* BigInt(costUnits)
      mBps == MathRound(marginBps, 1)    \* BigInt(Math.round(marginBps))
  IN IF mBps < 0 \/ mBps >= 10000
     THEN Throw(<<"marginBps must be between 0 and 9999 (i.e., < 100%).">>)
     ELSE IF cost < 0 THEN Throw(<<"costUnits cannot be negative.">>)
     ELSE LET denom == ONE - mBps
              numerator == cost * ONE
              priceUnits == divCeil(numerator, denom)
          IN roundingStage(priceUnits, r)

\* the calls the three-argument calculator makes of a custom function
legacyCustomCalls(cu, marginBps, r0) ==
  LET r == IF r0 = Undefined THEN defaultRounding ELSE r0
      mBps == MathRound(marginBps, 1)
  IN IF mBps < 0 \/ mBps >= 10000 THEN << >>
     ELSE IF cu < 0 THEN << >>
     ELSE roundingStageCalls(divCeil(cu * ONE, ONE - mBps), r)

----------------------------------------------------------------------------
(* index.js: pctToBps                                                      *)

\* A JavaScript value given to pctToBps. A finite number is the rational
\* n / PctDen: for PctDen = 8 such a number and 100 times it are doubles, so
\* pctNumber * 100 is exact on these inputs.
PctDen == 8
Num(n) == [t |-> "number", v |-> "finite", n |-> n]
NaN == [t |-> "number", v |-> "NaN", n |-> 0]
Infinity == [t |-> "number", v |-> "Infinity", n |-> 0]
NumericString(s) == [t |-> "string", v |-> s, n |-> 0]
NoNumber == [t |-> "undefined", v |-> "undefined", n |-> 0]

ReturnNumber(x) == [type |-> "return", typeof |-> "number", value |-> x, message |-> << >>]

\* pctToBps(pctNumber)
pctToBps(p) ==
  IF p.t /= "number" \/ p.v /= "finite"
  THEN Throw(<<"pctToBps expects a finite number.">>)
  ELSE ReturnNumber(MathRound(p.n * 100, PctDen))

----------------------------------------------------------------------------
(* The inputs of the explored calls.                                       *)

ExampleCosts == {250, 500, 1000, 2500}
ExampleMarkups == {500, 2500, 3000}

Costs == (-NegCost .. MaxCost) \cup ExampleCosts

Markups ==
  (-NegMarkup .. SmallMarkup)
  \cup {k * MarkupStep : k \in 1 .. MarkupSteps}
  \cup ((ONE - EdgeWidth) .. (ONE + EdgeWidth))
  \cup ExampleMarkups

StrategyNames ==
  {"margin", "costPlus", "keystone", "keystonePlus", "fixedAmount",
   "targetMargin", "markupOnCost"}

BuiltInRoundings ==
  {"identity", "ceilStep5", "ceilStep10", "ceilStepUSD", "ceilStepEUR",
   "ceilStepJPY", "ceilStepINR", "charm99"}

\* strategy arguments: the seven names, two names the switch has no case
\* for (one of them a rounding name), and no argument
Strategies == {Str(s) : s \in StrategyNames \cup {"wholesale", "identity"}} \cup {Undefined}

\* rounding arguments: the built-in names, a name the registry does not
\* know, five names found on Object.prototype (one for each way the call of
\* the value found there ends), two custom functions, and no argument
Roundings ==
  {Str(r) : r \in BuiltInRoundings
                  \cup {"nearest", "toString", "valueOf", "constructor",
                        "__proto__", "isPrototypeOf"}}
  \cup {Fn("lastDigit9"), Fn("roundToQuarter"), Undefined}

\* arguments of the direct calls of resolveRounder
RounderKeys ==
  {Str(r) : r \in BuiltInRoundings \cup DOMAIN ObjectPrototype
                  \cup {"nearest", "ceilStep", "CharM99", "", "undefined"}}
  \cup {Fn("lastDigit9"), Fn("roundToQuarter"), Undefined}

\* the third argument of a call in the old form calculatePrice(cost,
\* margin, rounding): a built-in rounding name or a custom function
OldThirdArguments ==
  {Str(r) : r \in BuiltInRoundings} \cup {Fn("lastDigit9"), Fn("roundToQuarter")}

\* arguments of pctToBps: the multiples of 1/PctDen up to MaxPct percent in
\* both directions, 30 percent, and values that are no finite number
MaxPct == 3
PctNumbers ==
  {Num(n) : n \in (-(MaxPct * PctDen) .. MaxPct * PctDen) \cup {30 * PctDen}}
  \cup {NaN, Infinity, NumericString("30"), NoNumber}

\* arguments of the direct calls of ceilStep(stepUnits) and charm99
MaxStep == 12
NegPrice == 3
MaxPrice == 320
Steps == 1 .. MaxStep
Prices == -NegPrice .. MaxPrice

NoResult == [type |-> "none", typeof |-> "undefined", value |-> 0, message |-> << >>]

----------------------------------------------------------------------------
(* The state machine.                                                      *)

\* the arguments a call does not take
NoCalculatorArgs ==
  /\ costUnits = 0 /\ markupValue = 0 /\ strategy = Undefined
NoRounderArgs == argStep = 0 /\ argPrice = 0
NoPctArgs == pctNumber = NoNumber

\* the single-strategy entry points that take a markup value
MarkupEntryPoints ==
  {"calculatePriceWithMargin", "calculateCostPlusPrice",
   "calculateKeystonePlusPrice", "calculateFixedAmountPrice",
   "calculateMarkupOnCostPrice"}

Init ==
  /\ pc = "call"
  /\ result = NoResult
  /\ invoked = << >>
  /\ rounders = roundersInit
  /\ callers = << >>
  /\ \/ /\ op = "calculatePrice"
        /\ costUnits \in Costs
        /\ markupValue \in Markups
        /\ \/ strategy \in Strategies /\ rounding \in Roundings
           \/ strategy \in OldThirdArguments /\ rounding = Undefined
        /\ NoRounderArgs /\ NoPctArgs
     \/ /\ op \in MarkupEntryPoints \cup {"legacyCalculatePrice"}
        /\ costUnits \in Costs
        /\ markupValue \in Markups
        /\ strategy = Undefined
        /\ rounding \in Roundings
        /\ NoRounderArgs /\ NoPctArgs
     \/ /\ op = "calculateKeystonePrice"
        /\ costUnits \in Costs
        /\ markupValue = 0
        /\ strategy = Undefined
        /\ rounding \in Roundings
        /\ NoRounderArgs /\ NoPctArgs
     \/ /\ op = "resolveRounder"
        /\ rounding \in RounderKeys
        /\ NoCalculatorArgs /\ NoRounderArgs /\ NoPctArgs
     \/ /\ op = "ceilStep"
        /\ argStep \in Steps
        /\ argPrice \in Prices
        /\ NoCalculatorArgs /\ rounding = Undefined /\ NoPctArgs
     \/ /\ op = "charm99"
        /\ argPrice \in Prices
        /\ argStep = 0
        /\ NoCalculatorArgs /\ rounding = Undefined /\ NoPctArgs
     \/ /\ op = "pctToBps"
        /\ pctNumber \in PctNumbers
        /\ NoCalculatorArgs /\ rounding = Undefined /\ NoRounderArgs

\* the call ends with r, having made the calls of a custom rounder
EndsWith(r, calls) ==
  /\ pc = "call"
  /\ pc' = "done"
  /\ result' = r
  /\ invoked' = calls
  /\ UNCHANGED <<costUnits, markupValue, strategy, rounding, argStep, argPrice,
                 pctNumber, op, rounders, callers>>

Ends(r) == EndsWith(r, << >>)

CalculatePrice ==
  /\ op = "calculatePrice"
  /\ EndsWith(calculatePrice(costUnits, markupValue, strategy, rounding),
              customCalls(costUnits, markupValue, strategy, rounding))

CalculatePriceWithMargin ==
  /\ op = "calculatePriceWithMargin"
  /\ EndsWith(calculatePriceWithMargin(costUnits, markupValue, rounding),
              customCalls(costUnits, markupValue, Str("margin"), rounding))

CalculateCostPlusPrice ==
  /\ op = "calculateCostPlusPrice"
  /\ EndsWith(calculateCostPlusPrice(costUnits, markupValue, rounding),
              customCalls(costUnits, markupValue, Str("costPlus"), rounding))

CalculateKeystonePrice ==
  /\ op = "calculateKeystonePrice"
  /\ EndsWith(calculateKeystonePrice(costUnits, rounding),
              customCalls(costUnits, 0, Str("keystone"), rounding))

CalculateKeystonePlusPrice ==
  /\ op = "calculateKeystonePlusPrice"
  /\ EndsWith(calculateKeystonePlusPrice(costUnits, markupValue, rounding),
              customCalls(costUnits, markupValue, Str("keystonePlus"), rounding))

CalculateFixedAmountPrice ==
  /\ op = "calculateFixedAmountPrice"
  /\ EndsWith(calculateFixedAmountPrice(costUnits, markupValue, rounding),
              customCalls(costUnits, markupValue, Str("fixedAmount"), rounding))

CalculateMarkupOnCostPrice ==
  /\ op = "calculateMarkupOnCostPrice"
  /\ EndsWith(calculateMarkupOnCostPrice(costUnits, markupValue, rounding),
              customCalls(costUnits, markupValue, Str("markupOnCost"), rounding))

\* calculatePrice(costUnits, marginBps, rounding) of src/core/calculator.js
LegacyCalculatePrice ==
  /\ op = "legacyCalculatePrice"
  /\ EndsWith(legacyCalculatePrice(costUnits, markupValue, rounding),
              legacyCustomCalls(costUnits, markupValue, rounding))

ResolveRounder ==
  /\ op = "resolveRounder"
  /\ Ends(resolveRounder(rounding))

\* ceilStep(stepUnits)(priceUnits)
CeilStep ==
  /\ op = "ceilStep"
  /\ Ends(Return(ceilStep(argStep, argPrice)))

Charm99 ==
  /\ op = "charm99"
  /\ Ends(Return(charm99(argPrice)))

PctToBps ==
  /\ op = "pctToBps"
  /\ Ends(pctToBps(pctNumber))

Next ==
  \/ CalculatePrice
  \/ CalculatePriceWithMargin
  \/ CalculateCostPlusPrice
  \/ CalculateKeystonePrice
  \/ CalculateKeystonePlusPrice
  \/ CalculateFixedAmountPrice
  \/ CalculateMarkupOnCostPrice
  \/ LegacyCalculatePrice
  \/ ResolveRounder
  \/ CeilStep
  \/ Charm99
  \/ PctToBps

Spec == Init /\ [][Next]_vars

----------------------------------------------------------------------------
(* Several callers on one registry. The exported functions are synchronous *)
(* and JavaScript runs a call to completion, so an interleaving of the     *)
(* callers is an order of whole calls; what the calls share is the         *)
(* registry object rounders.                                               *)

NumCallers == 2
CallerIds == 1 .. NumCallers

CallerCosts == {-1, 250}
CallerStrategies == {Str("margin"), Str("wholesale")}
CallerRoundings ==
  {Str("charm99"), Str("nearest"), Str("constructor"), Str("lastDigit9"),
   Fn("lastDigit9")}

Call(f, cu, mv, s, r) ==
  [op |-> f, costUnits |-> cu, markupValue |-> mv, strategy |-> s,
   rounding |-> r, pc |-> "call", result |-> NoResult]

CallerCalls ==
  {Call("calculatePrice", cu, 3000, s, r) :
     cu \in CallerCosts, s \in CallerStrategies, r \in CallerRoundings}
  \cup {Call("resolveRounder", 0, 0, Undefined, r) : r \in CallerRoundings}

\* what the call c returns or throws on the registry as it is now
Outcome(c) ==
  IF c.op = "calculatePrice"
  THEN calculatePrice(c.costUnits, c.markupValue, c.strategy, c.rounding)
  ELSE LET found == resolveRounder(c.rounding)
       IN [type |-> found.type,
           typeof |-> IF found.type = "throw" THEN "undefined"
                      ELSE IF found.fn.fn = "Object.prototype" THEN "object"
                      ELSE "function",
           value |-> 0,
           message |-> IF found.type = "throw" THEN found.message
                       ELSE <<found.fn.fn>>]

InitCallers ==
  /\ pc = "idle"
  /\ op = "none"
  /\ result = NoResult
  /\ invoked = << >>
  /\ NoCalculatorArgs /\ rounding = Undefined /\ NoRounderArgs /\ NoPctArgs
  /\ rounders = roundersInit
  /\ callers \in [CallerIds -> CallerCalls]

CallerEnds(k, registry) ==
  /\ callers[k].pc = "call"
  /\ callers' = [callers EXCEPT ![k].pc = "done",
                                ![k].result = Outcome(callers[k])]
  /\ rounders' = registry
  /\ UNCHANGED <<costUnits, markupValue, strategy, rounding, argStep, argPrice,
                 pctNumber, pc, op, result, invoked>>

CallerCalculatesPrice(k) ==
  /\ callers[k].op = "calculatePrice"
  /\ CallerEnds(k, calculatePriceRegistry(callers[k].costUnits,
                                          callers[k].markupValue,
                                          callers[k].strategy,
                                          callers[k].rounding))

CallerResolvesRounder(k) ==
  /\ callers[k].op = "resolveRounder"
  /\ CallerEnds(k, resolveRounderRegistry(callers[k].rounding))

NextCallers ==
  \E k \in CallerIds : CallerCalculatesPrice(k) \/ CallerResolvesRounder(k)

SpecCallers == InitCallers /\ [][NextCallers]_vars

--------
(* Vocabulary of the properties.                                           *)

\* a call of the general calculator has ended
Called == pc = "done" /\ op = "calculatePrice"

Returned == result.type = "return" /\ result.typeof = "bigint"
Threw == result.type = "throw"

\* the kind of a thrown error, by the literal text its message starts with
ErrorKind(res) ==
  IF res.type /= "throw" THEN "none"
  ELSE LET text == Head(res.message)
       IN CASE text = "costUnits cannot be negative." -> "InvalidCost"
            [] text \in {"marginBps must be between 0 and 9999 (i.e., < 100%).",
                         "targetMargin must be between 0 and 9999 (i.e., < 100%).",
                         "costPlus markup cannot be negative.",
                         "keystonePlus markup cannot be negative.",
                         "fixedAmount markup cannot be negative.",
                         "markupOnCost cannot be negative."} -> "InvalidMarkup"
            [] text = "Unknown markup strategy: " -> "UnsupportedStrategy"
            [] text = "Unknown rounding style: " -> "UnsupportedRounding"
            [] OTHER -> "other"

\* the rounding argument is a function, the name of a built-in rule, or
\* left out (the default applies)
ValidRounding(r) ==
  \/ r.t = "function"
  \/ r.t = "undefined"
  \/ r.t = "string" /\ r.v \in BuiltInRoundings

BuiltIn(r) == r.t = "string" /\ r.v \in BuiltInRoundings

ValidMargin(m) == 0 <= m /\ m < ONE

----------------------------------------------------------------------------
(* Properties of the price calculator.                                     *)

\* C1: for cost C >= 0 and margin 0 <= M < 10000, the margin strategy with
\* identity rounding returns the least integer P with
\* P * (10000 - M) >= C * 10000, i.e. also (P - 1) * (10000 - M) < C * 10000.
C1_MarginCeiling ==
  (Called /\ strategy = Str("margin") /\ rounding = Str("identity")
     /\ costUnits >= 0 /\ ValidMargin(markupValue))
  => /\ Returned
     /\ result.value * (ONE - markupValue) >= costUnits * ONE
     /\ (result.value - 1) * (ONE - markupValue) < costUnits * ONE

\* a margin price that is a strict ceiling: the quotient is not exact
C1_Witness ==
  /\ Called /\ strategy = Str("margin") /\ rounding = Str("identity")
  /\ costUnits > 0 /\ ValidMargin(markupValue) /\ Returned
  /\ result.value * (ONE - markupValue) > costUnits * ONE

\* C2: with strategy margin or targetMargin, a valid margin M and any
\* built-in rounding rule, the final price F keeps the margin:
\* F * (10000 - M) >= C * 10000.
C2_MarginProtected ==
  (Called /\ strategy \in {Str("margin"), Str("targetMargin")}
     /\ BuiltIn(rounding) /\ costUnits >= 0 /\ ValidMargin(markupValue))
  => /\ Returned
     /\ result.value * (ONE - markupValue) >= costUnits * ONE

\* a step-5 rounding of a raw margin price that was no multiple of 5
C2_Witness ==
  /\ Called /\ strategy = Str("targetMargin") /\ rounding = Str("ceilStep5")
  /\ costUnits > 0 /\ ValidMargin(markupValue) /\ Returned
  /\ result.value % 5 = 0
  /\ (result.value - 5) * (ONE - markupValue) < costUnits * ONE
  /\ (result.value - 1) * (ONE - markupValue) >= costUnits * ONE

\* C3: for cost C >= 0 and markup K >= 0, costPlus with identity rounding
\* returns floor(C * (10000 + K) / 10000), and markupOnCost returns what
\* costPlus returns.
C3_CostPlusFloor ==
  /\ (Called /\ strategy \in {Str("costPlus"), Str("markupOnCost")}
        /\ rounding = Str("identity") /\ costUnits >= 0 /\ markupValue >= 0)
     => /\ Returned
        /\ result.value * ONE <= costUnits * (ONE + markupValue)
        /\ (result.value + 1) * ONE > costUnits * (ONE + markupValue)
  /\ (Called /\ strategy = Str("markupOnCost")
        /\ costUnits >= 0 /\ markupValue >= 0)
     => result = calculatePrice(costUnits, markupValue, Str("costPlus"), rounding)

\* a markupOnCost price whose quotient was truncated
C3_Witness ==
  /\ Called /\ strategy = Str("markupOnCost") /\ rounding = Str("identity")
  /\ costUnits > 0 /\ markupValue > 0 /\ Returned
  /\ result.value * ONE < costUnits * (ONE + markupValue)

\* C4: for cost C >= 0 and markup K >= 0, keystonePlus with identity
\* rounding returns floor(C * 2 * (10000 + K) / 10000), one floor taken
\* after the whole product.
C4_KeystonePlusFloor ==
  (Called /\ strategy = Str("keystonePlus") /\ rounding = Str("identity")
     /\ costUnits >= 0 /\ markupValue >= 0)
  => /\ Returned
     /\ result.value * ONE <= costUnits * 2 * (ONE + markupValue)
     /\ (result.value + 1) * ONE > costUnits * 2 * (ONE + markupValue)

\* a keystonePlus price that a floor before the doubling would have changed
C4_Witness ==
  /\ Called /\ strategy = Str("keystonePlus") /\ rounding = Str("identity")
  /\ costUnits > 0 /\ markupValue > 0 /\ Returned
  /\ result.value /= 2 * ((costUnits * (ONE + markupValue)) \div ONE)

\* C5: for cost C >= 0 and any integer markup value, keystone with identity
\* rounding returns 2 * C; the markup is neither validated nor used.
C5_KeystoneDoubles ==
  (Called /\ strategy = Str("keystone") /\ rounding = Str("identity")
     /\ costUnits >= 0)
  => /\ Returned
     /\ result.value = 2 * costUnits

\* keystone called with a negative markup value
C5_Witness ==
  /\ Called /\ strategy = Str("keystone") /\ rounding = Str("identity")
  /\ costUnits > 0 /\ markupValue < 0 /\ Returned
  /\ result.value = 2 * costUnits

\* C6: for cost C >= 0 and markup K >= 0, fixedAmount with identity rounding
\* returns C + K, K being an amount in smallest units, not basis points.
C6_FixedAmountAdds ==
  (Called /\ strategy = Str("fixedAmount") /\ rounding = Str("identity")
     /\ costUnits >= 0 /\ markupValue >= 0)
  => /\ Returned
     /\ result.value = costUnits + markupValue

\* a fixed amount for which reading K as basis points gives another price
C6_Witness ==
  /\ Called /\ strategy = Str("fixedAmount") /\ rounding = Str("identity")
  /\ costUnits > 0 /\ markupValue > 0 /\ Returned
  /\ result.value = costUnits + markupValue
  /\ result.value /= (costUnits * (ONE + markupValue)) \div ONE

\* C7: targetMargin behaves as margin: for every cost, markup value and
\* rounding, the same price when the call succeeds and the same kind of
\* error when it fails.
C7_TargetMarginIsMargin ==
  (Called /\ strategy = Str("targetMargin"))
  => LET m == calculatePrice(costUnits, markupValue, Str("margin"), rounding)
     IN /\ result.type = m.type
        /\ result.value = m.value
        /\ ErrorKind(result) = ErrorKind(m)

\* a targetMargin price that is a strict ceiling
C7_Witness ==
  /\ Called /\ strategy = Str("targetMargin") /\ BuiltIn(rounding)
  /\ costUnits > 0 /\ ValidMargin(markupValue) /\ Returned
  /\ result.value * (ONE - markupValue) > costUnits * ONE
  /\ result.value = calculatePrice(costUnits, markupValue, Str("margin"), rounding).value

\* C8: a negative cost fails with the invalid-cost error for each of the
\* seven strategies, whatever the markup value and the rounding are.
C8_NegativeCostFails ==
  (Called /\ costUnits < 0 /\ strategy.v \in StrategyNames)
  => /\ Threw
     /\ ErrorKind(result) = "InvalidCost"

\* a negative cost together with an invalid margin and an unknown rounding
C8_Witness ==
  /\ Called /\ costUnits < 0 /\ strategy = Str("margin")
  /\ markupValue >= ONE /\ ~ValidRounding(rounding)
  /\ Threw /\ ErrorKind(result) = "InvalidCost"

\* C9: for margin and targetMargin with cost >= 0, the markup value is
\* accepted exactly when 0 <= markup < 10000: outside that range the call
\* fails with the invalid-markup error, inside it the markup is never the
\* reason of a failure and the call yields a price when its rounding is valid.
C9_MarginRange ==
  (Called /\ strategy \in {Str("margin"), Str("targetMargin")} /\ costUnits >= 0)
  => /\ ~ValidMargin(markupValue) => (Threw /\ ErrorKind(result) = "InvalidMarkup")
     /\ (ValidMargin(markupValue) /\ ValidRounding(rounding)) => Returned
     /\ ValidMargin(markupValue) => ErrorKind(result) /= "InvalidMarkup"

\* a margin of exactly 10000 refused
C9_Witness ==
  /\ Called /\ strategy = Str("margin") /\ costUnits > 0
  /\ markupValue = ONE /\ ValidRounding(rounding)
  /\ Threw /\ ErrorKind(result) = "InvalidMarkup"

\* C10: for costPlus, markupOnCost, keystonePlus and fixedAmount with
\* cost >= 0, the markup value is accepted exactly when it is >= 0: a
\* negative markup fails with the invalid-markup error, and a markup of
\* 10000 or more yields a price.
C10_AdditiveMarkupRange ==
  (Called /\ costUnits >= 0
     /\ strategy \in {Str("costPlus"), Str("markupOnCost"),
                      Str("keystonePlus"), Str("fixedAmount")})
  => /\ markupValue < 0 => (Threw /\ ErrorKind(result) = "InvalidMarkup")
     /\ (markupValue >= 0 /\ ValidRounding(rounding)) => Returned
     /\ markupValue >= 0 => ErrorKind(result) /= "InvalidMarkup"

\* a costPlus markup above 100% accepted
C10_Witness ==
  /\ Called /\ strategy = Str("costPlus") /\ costUnits > 0
  /\ markupValue > ONE /\ ValidRounding(rounding) /\ Returned
  /\ result.value > 2 * costUnits

----------------------------------------------------------------------------
(* Properties of the strategy dispatch, the registry and the rounders.     *)

\* a direct call of the named function has ended
Ended(f) == pc = "done" /\ op = f

\* the strategy and rounding in effect once the defaults are applied
EffectiveStrategy == IF strategy = Undefined THEN Str("margin") ELSE strategy
EffectiveRounding == IF rounding = Undefined THEN Str("identity") ELSE rounding

\* the unrounded price of the call (or the error of its strategy case)
RawPrice == strategySwitch(costUnits, markupValue, EffectiveStrategy)

\* the names listed in the message of an unknown-strategy error
ListedStrategies(msg) == {msg[i] : i \in 4 .. Len(msg)}

\* the names for which the switch has a case, among those explored and listed
AcceptedStrategies ==
  {n \in {x.v : x \in {y \in Strategies : y.t = "string"}}
          \cup {SupportedStrategies[i] : i \in DOMAIN SupportedStrategies}
          \cup StrategyNames :
     ErrorKind(strategySwitch(0, 0, Str(n))) /= "UnsupportedStrategy"}

\* C11: with cost >= 0 a strategy name outside the seven fails with an error
\* that names the given strategy and lists the supported names, and the
\* listed names are exactly the names the calculator accepts.
C11_UnknownStrategy ==
  (Called /\ costUnits >= 0 /\ strategy.t = "string" /\ strategy.v \notin StrategyNames)
  => /\ Threw
     /\ ErrorKind(result) = "UnsupportedStrategy"
     /\ result.message[2] = strategy.v
     /\ ListedStrategies(result.message) = AcceptedStrategies
     /\ AcceptedStrategies = StrategyNames

\* an unknown strategy name refused although markup and rounding are valid
C11_Witness ==
  /\ Called /\ costUnits > 0 /\ strategy = Str("wholesale")
  /\ markupValue = 0 /\ rounding = Str("identity")
  /\ Threw /\ ErrorKind(result) = "UnsupportedStrategy"
  /\ result.message[2] = "wholesale"
  /\ Len(result.message) = 10

\* C12: resolveRounder given a string key that is not a built-in rounding
\* name fails with the unknown-rounding error that identifies the key; it
\* never returns a callable for such a key.
C12_UnknownKeyFails ==
  (Ended("resolveRounder") /\ rounding.t = "string" /\ rounding.v \notin BuiltInRoundings)
  => /\ result.type = "throw"
     /\ result.message = <<"Unknown rounding style: ", rounding.v>>

\* the rounding function a Fn value stands for
CustomFunction(f, units) ==
  CASE f = "lastDigit9" -> lastDigit9(units)
    [] f = "roundToQuarter" -> roundToQuarter(units)

\* C13: a rounding given as a function f is used as it is: for valid cost,
\* markup and strategy the call returns f(raw), raw the unrounded price of
\* the strategy, also when f(raw) is below raw.
C13_CustomRounderAsIs ==
  (Called /\ rounding.t = "function" /\ costUnits >= 0 /\ RawPrice.type = "return")
  => result = Return(CustomFunction(rounding.v, RawPrice.value))

\* a custom rounder that returned less than the raw price
C13_Witness ==
  /\ Called /\ rounding = Fn("roundToQuarter") /\ costUnits > 0
  /\ RawPrice.type = "return" /\ Returned
  /\ result.value < RawPrice.value

\* the markup value is valid for the strategy
ValidMarkup(s, m) ==
  CASE s \in {Str("margin"), Str("targetMargin")} -> ValidMargin(m)
    [] s = Str("keystone") -> TRUE
    [] OTHER -> m >= 0

ValidInputs ==
  /\ costUnits >= 0
  /\ EffectiveStrategy.t = "string" /\ EffectiveStrategy.v \in StrategyNames
  /\ ValidMarkup(EffectiveStrategy, markupValue)
  /\ ValidRounding(rounding)

\* C14: calculatePrice returns a price exactly when all its inputs are valid,
\* and every other call fails with InvalidCost, InvalidMarkup,
\* UnsupportedStrategy or UnsupportedRounding.
C14_PriceIffValid ==
  Called
  => /\ Returned <=> ValidInputs
     /\ ~ValidInputs
          => /\ Threw
             /\ ErrorKind(result) \in {"InvalidCost", "InvalidMarkup",
                                       "UnsupportedStrategy", "UnsupportedRounding"}

\* C15: for step >= 1 and x >= 0, ceilStep(step)(x) is the least multiple of
\* step that is >= x: x itself when x is a multiple, else a multiple y with
\* x < y < x + step.
C15_CeilStepLeastMultiple ==
  (Ended("ceilStep") /\ argStep >= 1 /\ argPrice >= 0)
  => /\ Returned
     /\ result.value % argStep = 0
     /\ result.value >= argPrice
     /\ result.value < argPrice + argStep
     /\ argPrice % argStep = 0 => result.value = argPrice

\* a multiple of a step > 1 returned unchanged
C15_Witness ==
  /\ Ended("ceilStep") /\ argStep > 1 /\ argPrice > 0
  /\ argPrice % argStep = 0
  /\ Returned /\ result.value = argPrice

\* C16: ceilStep(step) is idempotent for step >= 1: applied to its own
\* result it returns that result.
C16_CeilStepIdempotent ==
  (Ended("ceilStep") /\ argStep >= 1 /\ argPrice >= 0)
  => /\ Returned
     /\ ceilStep(argStep, result.value) = result.value

\* a price that ceilStep moved up, and that a second application leaves
C16_Witness ==
  /\ Ended("ceilStep") /\ argStep > 1 /\ argPrice > 0
  /\ Returned /\ result.value > argPrice
  /\ ceilStep(argStep, result.value) = result.value

\* C17: ceilStep(1) is the identity on the non-negative integers, and a call
\* with rounding ceilStepJPY ends as the same call with rounding identity.
C17_CeilStepOneIsIdentity ==
  /\ (Ended("ceilStep") /\ argStep = 1 /\ argPrice >= 0)
     => (Returned /\ result.value = argPrice)
  /\ (Called /\ rounding = Str("ceilStepJPY"))
     => result = calculatePrice(costUnits, markupValue, strategy, Str("identity"))

\* a ceilStepJPY price that is no multiple of 5
C17_Witness ==
  /\ Called /\ rounding = Str("ceilStepJPY") /\ costUnits > 0
  /\ Returned /\ result.value % 5 /= 0
  /\ result.value = RawPrice.value

\* C18: for x >= 0, charm99(x) is the least y >= x with y mod 100 = 99: it
\* ends in 99, is not below x and exceeds x by at most 99.
C18_Charm99Least ==
  (Ended("charm99") /\ argPrice >= 0)
  => /\ Returned
     /\ result.value % 100 = 99
     /\ result.value >= argPrice
     /\ result.value - argPrice <= 99

\* a price already ending in 99 returned unchanged
C18_Witness ==
  /\ Ended("charm99") /\ argPrice > 100 /\ argPrice % 100 = 99
  /\ Returned /\ result.value = argPrice

\* the rule documented for each built-in rounding name
DocumentedRule(name) ==
  CASE name = "identity" -> Rounder("identity", 0)
    [] name \in {"ceilStep5", "ceilStepUSD", "ceilStepEUR", "ceilStepINR"}
         -> Rounder("ceilStep", 5)
    [] name = "ceilStep10" -> Rounder("ceilStep", 10)
    [] name = "ceilStepJPY" -> Rounder("ceilStep", 1)
    [] name = "charm99" -> Rounder("charm99", 0)

\* C19: the registry binds each documented name to its documented rule and
\* resolves exactly the eight documented names.
C19_RegistryBindings ==
  (Ended("resolveRounder") /\ rounding.t = "string")
  => /\ result.type = "return" <=> rounding.v \in BuiltInRoundings
     /\ result.type = "return" => result.fn = DocumentedRule(rounding.v)

\* C20: strategy defaults to margin and rounding to identity: a call without
\* rounding ends as the call with rounding identity (and with strategy
\* margin when the strategy is left out too), which returns the raw price of
\* the strategy unchanged.
C20_Defaults ==
  /\ (Called /\ rounding = Undefined)
     => /\ result = calculatePrice(costUnits, markupValue, EffectiveStrategy, Str("identity"))
        /\ costUnits >= 0 => result = RawPrice
  /\ (Called /\ strategy = Undefined)
     => result = calculatePrice(costUnits, markupValue, Str("margin"), rounding)

\* a call with cost and markup only that returned a margin price
C20_Witness ==
  /\ Called /\ strategy = Undefined /\ rounding = Undefined
  /\ costUnits > 0 /\ ValidMargin(markupValue) /\ markupValue > 0
  /\ Returned
  /\ result.value * (ONE - markupValue) >= costUnits * ONE
  /\ (result.value - 1) * (ONE - markupValue) < costUnits * ONE

----------------------------------------------------------------------------
(* Properties of the entry points, of the worked examples and of pctToBps. *)

\* the strategy a single-strategy entry point passes on
WrapperStrategy(f) ==
  CASE f = "calculatePriceWithMargin" -> Str("margin")
    [] f = "calculateCostPlusPrice" -> Str("costPlus")
    [] f = "calculateKeystonePlusPrice" -> Str("keystonePlus")
    [] f = "calculateFixedAmountPrice" -> Str("fixedAmount")
    [] f = "calculateMarkupOnCostPrice" -> Str("markupOnCost")

\* C21: each single-strategy entry point ends as the general entry point
\* called with its strategy and the same cost, value and rounding (the same
\* price returned or the same error thrown); calculateKeystonePrice(cost,
\* rounding) ends as calculatePrice(cost, 0, 'keystone', rounding).
C21_EntryPoints ==
  /\ \A f \in MarkupEntryPoints :
       Ended(f) => result = calculatePrice(costUnits, markupValue,
                                           WrapperStrategy(f), rounding)
  /\ Ended("calculateKeystonePrice")
       => result = calculatePrice(costUnits, 0, Str("keystone"), rounding)

\* the keystone entry point returned a doubled cost that the rounding raised
C21_Witness ==
  /\ Ended("calculateKeystonePrice") /\ rounding = Str("charm99")
  /\ costUnits > 0 /\ Returned
  /\ result.value > 2 * costUnits

\* two calls ended the same way: the same value returned, or an error of
\* the same kind thrown
SameOutcome(a, b) ==
  /\ a.type = b.type
  /\ ErrorKind(a) = ErrorKind(b)
  /\ a.type = "return" => a = b

\* C22: the three-argument calculator of src/core/calculator.js ends as the
\* general calculator called with strategy 'margin' on the same cost, margin
\* and rounding: the same price, or an error of the same kind, also when
\* several arguments are invalid.
C22_LegacyIsMargin ==
  Ended("legacyCalculatePrice")
  => SameOutcome(result,
                 calculatePrice(costUnits, markupValue, Str("margin"), rounding))

\* C23: a call of the general calculatePrice in the old form (cost, margin,
\* r), r a built-in rounding name or a custom function, with a valid cost
\* and margin returns what calculatePrice(cost, margin, 'margin', r) returns.
C23_OldCallForm ==
  (Called /\ strategy \in OldThirdArguments /\ rounding = Undefined
     /\ costUnits >= 0 /\ ValidMargin(markupValue))
  => /\ Returned
     /\ result = calculatePrice(costUnits, markupValue, Str("margin"), strategy)

\* the worked example: cost 250 with a margin of 3000 basis points
WorkedMargin ==
  /\ Called /\ costUnits = 250 /\ markupValue = 3000
  /\ EffectiveStrategy = Str("margin")

\* C24: cost 250 with margin 3000 under the margin strategy gives 358 with
\* identity, 360 with ceilStep5 and with ceilStepUSD, 399 with charm99, and
\* with every built-in rule what the rule makes of the raw price 358.
C24_WorkedMargin ==
  WorkedMargin
  => /\ EffectiveRounding = Str("identity") => result = Return(358)
     /\ rounding \in {Str("ceilStep5"), Str("ceilStepUSD")} => result = Return(360)
     /\ rounding = Str("charm99") => result = Return(399)
     /\ RawPrice = Return(358)
     /\ BuiltIn(EffectiveRounding) => result = roundingStage(358, EffectiveRounding)

\* the example with the rule that changes 358 most
C24_Witness ==
  /\ WorkedMargin /\ rounding = Str("charm99")
  /\ result = Return(399)

\* the call with identity rounding (given or by default) of a strategy
IdentityCall(s, cu, mv) ==
  /\ Called /\ EffectiveStrategy = Str(s) /\ EffectiveRounding = Str("identity")
  /\ costUnits = cu /\ markupValue = mv

\* C25: with identity rounding keystone gives 2000 on cost 1000 and 5000 on
\* cost 2500, costPlus gives 1250 on cost 1000 with markup 2500, fixedAmount
\* gives 1000 on cost 500 with markup 500, margin gives 1429 on cost 1000
\* with margin 3000.
C25_WorkedStrategies ==
  /\ \A mv \in Markups : IdentityCall("keystone", 1000, mv) => result = Return(2000)
  /\ \A mv \in Markups : IdentityCall("keystone", 2500, mv) => result = Return(5000)
  /\ IdentityCall("costPlus", 1000, 2500) => result = Return(1250)
  /\ IdentityCall("fixedAmount", 500, 500) => result = Return(1000)
  /\ IdentityCall("margin", 1000, 3000) => result = Return(1429)

\* the costPlus example has ended
C25_Witness ==
  /\ IdentityCall("costPlus", 1000, 2500)
  /\ result = Return(1250)

\* C26: no call changes the registry, every ended call of every caller holds
\* the result its function gives on the registry as first built, whatever
\* calls ended before it, and two ended calls with the same function and
\* arguments hold the same result.
C26_CallsIndependent ==
  /\ rounders = roundersInit
  /\ \A k \in DOMAIN callers :
       callers[k].pc = "done" => callers[k].result = Outcome(callers[k])
  /\ \A j, k \in DOMAIN callers :
       (/\ callers[j].pc = "done" /\ callers[k].pc = "done"
        /\ [callers[j] EXCEPT !.result = NoResult]
             = [callers[k] EXCEPT !.result = NoResult])
       => callers[j].result = callers[k].result

\* a caller resolved a custom function, and a later call that gave its name
\* as a registry key failed all the same
C26_Witness ==
  \E j, k \in DOMAIN callers :
    /\ callers[j].pc = "done" /\ callers[j].op = "resolveRounder"
    /\ callers[j].rounding = Fn("lastDigit9")
    /\ callers[j].result.type = "return"
    /\ callers[k].pc = "done" /\ callers[k].op = "calculatePrice"
    /\ callers[k].rounding = Str("lastDigit9")
    /\ ErrorKind(callers[k].result) = "UnsupportedRounding"

\* the integer nearest to n / d (d > 0), a half going away from zero
RoundHalfAwayFromZero(n, d) ==
  IF n >= 0 THEN (2 * n + d) \div (2 * d)
  ELSE -((2 * (-n) + d) \div (2 * d))

\* C27: pctToBps(p) returns 100 * p rounded to the nearest integer, a half
\* going away from zero for positive and for negative p.
C27_PctToBpsHalfAway ==
  (Ended("pctToBps") /\ pctNumber.t = "number" /\ pctNumber.v = "finite")
  => result = ReturnNumber(RoundHalfAwayFromZero(100 * pctNumber.n, PctDen))

\* the strategy is one of the seven and the markup is valid for it
KnownStrategy ==
  EffectiveStrategy.t = "string" /\ EffectiveStrategy.v \in StrategyNames
ValidPricing ==
  /\ costUnits >= 0 /\ KnownStrategy
  /\ ValidMarkup(EffectiveStrategy, markupValue)

\* C28: for a valid cost, strategy and markup the raw price is an integer
\* >= cost >= 0; every built-in rule returns at least its input, in the
\* calculator and called directly; so the final price with a built-in rule
\* is >= cost, and a built-in rule that ran in calculatePrice ran on a
\* value >= 0.
C28_NeverBelowCost ==
  /\ (Called /\ ValidPricing)
     => /\ RawPrice.type = "return" /\ RawPrice.typeof = "bigint"
        /\ RawPrice.value >= costUnits /\ RawPrice.value >= 0
        /\ BuiltIn(EffectiveRounding)
           => /\ Returned
              /\ result.value >= RawPrice.value
              /\ result.value >= costUnits
  /\ (Ended("ceilStep") \/ Ended("charm99")) => result.value >= argPrice
  /\ (Called /\ BuiltIn(EffectiveRounding) /\ Returned) => RawPrice.value >= 0

\* a margin price above the cost that a step rule raised further
C28_Witness ==
  /\ Called /\ ValidPricing /\ EffectiveStrategy = Str("margin")
  /\ rounding = Str("ceilStep10") /\ Returned
  /\ RawPrice.value > costUnits
  /\ result.value > RawPrice.value

\* C29: a negative cost is reported before anything else; with a cost >= 0
\* an unknown strategy or an invalid markup is reported before the rounding
\* is looked at; an unknown rounding is reported only when cost, strategy
\* and markup are valid; a custom rounding function is called once, with the
\* raw price, when cost, strategy and markup are valid, and not at all
\* when the call fails.
C29_ValidationOrder ==
  Called
  => /\ costUnits < 0 => ErrorKind(result) = "InvalidCost"
     /\ (costUnits >= 0 /\ ~KnownStrategy) => ErrorKind(result) = "UnsupportedStrategy"
     /\ (costUnits >= 0 /\ KnownStrategy
           /\ ~ValidMarkup(EffectiveStrategy, markupValue))
        => ErrorKind(result) = "InvalidMarkup"
     /\ ErrorKind(result) = "UnsupportedRounding" => ValidPricing
     /\ rounding.t = "function"
        => /\ ValidPricing => (Returned /\ invoked = <<RawPrice.value>>)
           /\ ~ValidPricing => (Threw /\ invoked = << >>)
     /\ Threw => invoked = << >>

\* everything was invalid at once and the cost was reported
C29_Witness ==
  /\ Called /\ costUnits < 0 /\ strategy = Str("wholesale")
  /\ markupValue < 0 /\ rounding = Str("nearest")
  /\ ErrorKind(result) = "InvalidCost"

\* the final price of the call's strategy and rounding on another cost and
\* markup
PriceAt(cu, mv) == calculatePrice(cu, mv, strategy, rounding)

\* C30: for every strategy and built-in rounding rule the final price does
\* not decrease when the cost grows (markup fixed) nor when the markup grows
\* within the valid range of the strategy (cost fixed); for keystone it does
\* not depend on the markup.
C30_Monotone ==
  (Called /\ ValidPricing /\ BuiltIn(EffectiveRounding))
  => /\ Returned
     /\ \A cu \in Costs :
          cu >= costUnits
          => /\ PriceAt(cu, markupValue).type = "return"
             /\ PriceAt(cu, markupValue).value >= result.value
     /\ \A mv \in Markups :
          (mv >= markupValue /\ ValidMarkup(EffectiveStrategy, mv))
          => /\ PriceAt(costUnits, mv).type = "return"
             /\ PriceAt(costUnits, mv).value >= result.value
     /\ EffectiveStrategy = Str("keystone")
        => \A mv \in Markups : PriceAt(costUnits, mv) = result

\* a keystonePlus price with charm99 that a larger markup raises
C30_Witness ==
  /\ Called /\ ValidPricing /\ strategy = Str("keystonePlus")
  /\ rounding = Str("charm99") /\ Returned
  /\ \E mv \in Markups : mv > markupValue /\ PriceAt(costUnits, mv).value > result.value
  /\ \E cu \in Costs : cu > costUnits /\ PriceAt(cu, markupValue).value > result.value

====
